---- MODULE Spec2Model ----
(***************************************************************************)
(* The match-analytics aggregation core: RecordStore, FilterEngine, the    *)
(* UniqueUserAggregator primitive and the metric computers documented in   *)
(* docs/pages/matches-analytics.md.                                        *)
(*                                                                         *)
(* Timestamps are whole minutes.  An optional timestamp is a sequence of   *)
(* length 0 (absent) or 1 (present).  A decision is one of the strings     *)
(* "liked", "disliked", "passed" or "null".                                *)
(***************************************************************************)
EXTENDS Integers, Sequences, FiniteSets, TLC

VARIABLES matches, attributes, filterSpec, view, runs,
          pc, config, call, returned, exitCode, queries,
          userData, userMetadata, users, maleUsers, femaleUsers,
          maleBatches, femaleBatches, maleCsv, femaleCsv

\* The state of the email-batch utility (email.js): its position, its
\* CONFIG, the arguments and the result of a call of batchEmails, the exit
\* code of the process (<<>> while it runs), the queries sent to the
\* database with their outcome, and the locals of generateEmailBatches.
mailer == <<pc, config, call, returned, exitCode, queries, userData, userMetadata, users,
            maleUsers, femaleUsers, maleBatches, femaleBatches, maleCsv, femaleCsv>>

vars == <<matches, attributes, filterSpec, view, runs, mailer>>

\* runs: the precomputation runs of the snapshot assembler, one per gender
\* view, each with its position, its own filtered view and its own result.
precompute == <<runs>>

(***************************************************************************)
(* Bounds of the model.                                                    *)
(***************************************************************************)
MaxRows == 2
NumUsers == 2
NumDates == 3
MaxKnowMore == 2

(***************************************************************************)
(* Program constants.                                                      *)
(***************************************************************************)
MaxRank == 9

Users == 1 .. NumUsers
Dates == 1 .. NumDates
Decisions == {"liked", "disliked", "passed"}
Genders == {"male", "female", "unknown"}
Tiers == {"T1", "T2", "T3"}

Min(a, b) == IF a <= b THEN a ELSE b

RECURSIVE SumOver(_, _)
SumOver(f, S) ==
    IF S = {} THEN 0
    ELSE LET x == CHOOSE y \in S : TRUE IN f[x] + SumOver(f, S \ {x})

(***************************************************************************)
(* RecordStore                                                             *)
(***************************************************************************)
NoAttributes == [u \in {} |-> [gender |-> "unknown", tier |-> "unknown"]]

\* user_metadata as it may stand before any match exists: of every three
\* users the first is male tier 1, the second female tier 2, the third has
\* no record.
SampleDirectory ==
    [u \in {x \in Users : x % 3 # 0} |->
        [gender |-> IF u % 3 = 1 THEN "male" ELSE "female",
         tier |-> IF u % 3 = 1 THEN "T1" ELSE "T2"]]

\* The candidate shown when the claim at hand does not depend on it.
OtherUser(v) == (v % NumUsers) + 1

\* A match as it arrives from user_matches.  The row's id is not carried:
\* (viewerId, createdAt, rank) identifies a row.
Shape(v, c, d, isViewed, vAt, dec, dAt, km) ==
    [viewerId |-> v, candidateId |-> c, createdAt |-> d,
     viewed |-> isViewed, viewedAt |-> vAt,
     decision |-> dec, decidedAt |-> dAt, knowMoreCount |-> km]

\* Data model: viewedAt present iff viewed, decidedAt present iff decided,
\* a viewer is never their own candidate.
WellFormed(s) ==
    /\ s.viewerId # s.candidateId
    /\ (Len(s.viewedAt) = 1) <=> s.viewed
    /\ (Len(s.decidedAt) = 1) <=> (s.decision # "null")

NextRank(ms, s) ==
    1 + Cardinality({r \in ms : r.viewerId = s.viewerId /\ r.createdAt = s.createdAt})

(***************************************************************************)
(* FilterEngine                                                            *)
(***************************************************************************)
DefaultFilter == [dateSet |-> {}, gender |-> "any", tier |-> "any"]

Resolve(attrs, u) ==
    IF u \in DOMAIN attrs THEN attrs[u]
    ELSE [gender |-> "unknown", tier |-> "unknown"]

DateOk(spec, r) == spec.dateSet = {} \/ r.createdAt \in spec.dateSet

GenderOkInnerJoin(attrs, spec, r) ==
    /\ r.viewerId \in DOMAIN attrs
    /\ spec.gender = "any" \/ attrs[r.viewerId].gender = spec.gender

GenderOk(attrs, spec, r) ==
    spec.gender = "any" \/ Resolve(attrs, r.viewerId).gender = spec.gender

TierOk(attrs, spec, r) ==
    spec.tier = "any" \/ Resolve(attrs, r.viewerId).tier = spec.tier

Join(attrs, r) ==
    r @@ [viewerGender |-> Resolve(attrs, r.viewerId).gender,
          viewerTier |-> Resolve(attrs, r.viewerId).tier,
          candidateTier |-> Resolve(attrs, r.candidateId).tier]

Filter(ms, attrs, spec) ==
    {Join(attrs, r) :
        r \in {x \in ms : DateOk(spec, x) /\ GenderOk(attrs, spec, x) /\ TierOk(attrs, spec, x)}}

\* The global / male / female triple view: the same dates and tier, the
\* gender left open, set to male, set to female.
TripleView(ms, attrs, spec) ==
    [g \in {"any", "male", "female"} |-> Filter(ms, attrs, [spec EXCEPT !.gender = g])]

(***************************************************************************)
(* UniqueUserAggregator                                                    *)
(***************************************************************************)
Satisfies(p, r) ==
    CASE p = "any" -> TRUE
      [] p = "viewed" -> r.viewed
      [] p = "engaged" -> r.knowMoreCount > 0
      [] p = "decided" -> r.decision # "null"
      [] p = "liked" -> r.decision = "liked"
      [] p = "disliked" -> r.decision = "disliked"
      [] p = "passed" -> r.decision = "passed"
      [] p = "undecided" -> r.decision = "null"
      [] p = "active" -> r.viewed \/ r.decision # "null"

UniqueViewers(rows) == {r.viewerId : r \in rows}

\* "Every row of the user satisfies p" where "at least one row" is meant.
UsersWhereEveryRow(rows, p) ==
    {k \in UniqueViewers(rows) : \A r \in rows : r.viewerId = k => Satisfies(p, r)}

UsersWhere(rows, p) ==
    {k \in UniqueViewers(rows) : \E r \in rows : r.viewerId = k /\ Satisfies(p, r)}

RowsOf(rows, u) == {r \in rows : r.viewerId = u}

\* Row-based counting ("times shown / viewed / liked").
CountRowsWhere(rows, p) == Cardinality({r \in rows : Satisfies(p, r)})

\* Counting the rows where the users are meant.
CountUsersWhereByRow(rows, p) == Cardinality({r \in rows : Satisfies(p, r)})

\* Unique-user counting: the keys with at least one row satisfying p.
CountUsersWhere(rows, p) == Cardinality(UsersWhere(rows, p))

\* The outcome of a division by zero (NaN, Infinity or a raised error): a
\* value outside the non-negative results.
NaN == 0 - 1

Divide(a, b) == IF b = 0 THEN NaN ELSE a \div b

PercentageUnguarded(numerator, denominator) == Divide(100 * numerator, denominator)

\* Whole per cent; 0 when the denominator is 0.
Percentage(numerator, denominator) ==
    IF denominator = 0 THEN 0 ELSE Divide(100 * numerator, denominator)

RECURSIVE SumSeq(_)
SumSeq(q) == IF q = <<>> THEN 0 ELSE Head(q) + SumSeq(Tail(q))

MeanUnguarded(q) == Divide(SumSeq(q), Len(q))

\* Mean and median of a list of numbers (whole units); 0 for the empty list.
Mean(q) == IF Len(q) = 0 THEN 0 ELSE Divide(SumSeq(q), Len(q))

Median(q) ==
    IF Len(q) = 0 THEN 0
    ELSE IF Len(q) % 2 = 1 THEN q[(Len(q) + 1) \div 2]
    ELSE Divide(q[Len(q) \div 2] + q[(Len(q) \div 2) + 1], 2)

(***************************************************************************)
(* METRIC 1: Core Funnel (user-level)                                      *)
(***************************************************************************)
FunnelSteps == <<"any", "viewed", "engaged", "decided", "liked", "disliked", "passed">>

Funnel(rows) == [p \in {FunnelSteps[i] : i \in 1 .. Len(FunnelSteps)} |-> CountUsersWhere(rows, p)]

\* The decision categories taken against the step above "decided".
PreviousStepAboveDecided(p) ==
    CASE p = "viewed" -> "any"
      [] p = "engaged" -> "viewed"
      [] p \in {"decided", "liked", "disliked", "passed"} -> "engaged"

\* The step a step's relative % is taken against; the three decision
\* categories hang under "decided".
PreviousStep(p) ==
    CASE p = "viewed" -> "any"
      [] p = "engaged" -> "viewed"
      [] p = "decided" -> "engaged"
      [] p \in {"liked", "disliked", "passed"} -> "decided"

FunnelPercentages(rows) ==
    LET f == Funnel(rows) IN
    [p \in DOMAIN f \ {"any"} |->
        [absolute |-> Percentage(f[p], f["any"]),
         relative |-> Percentage(f[p], f[PreviousStep(p)])]]

(***************************************************************************)
(* METRIC 2: Activity hour distribution                                    *)
(***************************************************************************)
Hours == 0 .. 23

HourOf(t) == (t \div 60) % 24

HourKinds == {"view", "like", "reject"}

\* The rows that carry the timestamp of one distribution.
HourRows(rows, kind) ==
    CASE kind = "view" -> {r \in rows : Len(r.viewedAt) = 1}
      [] kind = "like" -> {r \in rows : Len(r.decidedAt) = 1 /\ r.decision = "liked"}
      [] kind = "reject" -> {r \in rows : Len(r.decidedAt) = 1 /\ r.decision \in {"disliked", "passed"}}

HourStamp(kind, r) == IF kind = "view" THEN r.viewedAt[1] ELSE r.decidedAt[1]

HourCounts(rows, kind) ==
    [h \in Hours |->
        CountUsersWhere({r \in HourRows(rows, kind) : HourOf(HourStamp(kind, r)) = h}, "any")]

\* Unique users per hour and their share of the distribution.
HourDistribution(rows) ==
    [kind \in HourKinds |->
        LET counts == HourCounts(rows, kind)
            total == SumOver(counts, Hours)
        IN [h \in Hours |-> [users |-> counts[h], pct |-> Percentage(counts[h], total)]]]

(***************************************************************************)
(* METRIC 3: Time to decision                                              *)
(***************************************************************************)
\* Lower bounds of the seven buckets, in minutes.
BucketFrom == <<0, 1, 5, 30, 120, 360, 1440>>

NumBuckets == Len(BucketFrom)

Latency(r) == r.decidedAt[1] - r.viewedAt[1]

Timed(rows) == {r \in rows : Len(r.viewedAt) = 1 /\ Len(r.decidedAt) = 1}

\* Rows whose decision precedes the view: dropped, and counted.
NegativeLatencyRows(rows) == {r \in Timed(rows) : Latency(r) < 0}

BucketOfInclusive(lat) ==
    IF lat <= 1 THEN 1
    ELSE IF lat <= 5 THEN 2
    ELSE IF lat <= 30 THEN 3
    ELSE IF lat <= 120 THEN 4
    ELSE IF lat <= 360 THEN 5
    ELSE IF lat <= 1440 THEN 6
    ELSE 7

BucketOf(lat) ==
    IF lat < 1 THEN 1
    ELSE IF lat < 5 THEN 2
    ELSE IF lat < 30 THEN 3
    ELSE IF lat < 120 THEN 4
    ELSE IF lat < 360 THEN 5
    ELSE IF lat < 1440 THEN 6
    ELSE 7

LatencyKinds == {"liked", "rejected"}

KindOf(r) == IF r.decision = "liked" THEN "liked" ELSE "rejected"

Distribution(rows, kind) ==
    {r \in Timed(rows) \ NegativeLatencyRows(rows) : KindOf(r) = kind}

LatencyBucketRows(rows, kind, b) == {r \in Distribution(rows, kind) : BucketOf(Latency(r)) = b}

RECURSIVE SortedLatencies(_)
SortedLatencies(rows) ==
    IF rows = {} THEN <<>>
    ELSE LET r == CHOOSE x \in rows : \A y \in rows : Latency(x) <= Latency(y)
         IN <<Latency(r)>> \o SortedLatencies(rows \ {r})

DecisionLatency(rows) ==
    [distributions |->
        [kind \in LatencyKinds |->
            [buckets |-> [b \in 1 .. NumBuckets |->
                            CountUsersWhere(LatencyBucketRows(rows, kind, b), "any")],
             mean |-> Mean(SortedLatencies(Distribution(rows, kind))),
             median |-> Median(SortedLatencies(Distribution(rows, kind)))]],
     diagnostics |-> [negativeLatency |-> Cardinality(NegativeLatencyRows(rows))]]

(***************************************************************************)
(* METRIC 4: Rank performance                                              *)
(***************************************************************************)
\* The rows up to rank k where the rows at rank k are meant.
RowsAtRankUpTo(rows, k) == {r \in rows : r.rank <= k}

RowsAtRank(rows, k) == {r \in rows : r.rank = k}

RECURSIVE KnowMoreList(_)
KnowMoreList(rows) ==
    IF rows = {} THEN <<>>
    ELSE LET r == CHOOSE x \in rows : TRUE
         IN <<r.knowMoreCount>> \o KnowMoreList(rows \ {r})

\* One table row: unique-viewer counts, view% against total, decision
\* percentages against viewed, row-mean of knowMoreCount.
PerformanceRow(rs) ==
    [total |-> CountUsersWhere(rs, "any"),
     viewed |-> CountUsersWhere(rs, "viewed"),
     viewPct |-> Percentage(CountUsersWhere(rs, "viewed"), CountUsersWhere(rs, "any")),
     kmAvg |-> Mean(KnowMoreList(rs)),
     liked |-> CountUsersWhere(rs, "liked"),
     likePct |-> Percentage(CountUsersWhere(rs, "liked"), CountUsersWhere(rs, "viewed")),
     disliked |-> CountUsersWhere(rs, "disliked"),
     dislikePct |-> Percentage(CountUsersWhere(rs, "disliked"), CountUsersWhere(rs, "viewed")),
     passed |-> CountUsersWhere(rs, "passed"),
     passPct |-> Percentage(CountUsersWhere(rs, "passed"), CountUsersWhere(rs, "viewed"))]

RankPerformance(rows) == [k \in 1 .. MaxRank |-> PerformanceRow(RowsAtRank(rows, k))]

(***************************************************************************)
(* METRIC 7: Know More count distribution                                  *)
(***************************************************************************)
KnowMoreBuckets == <<"0", "1", "2", "3+">>

KnowMoreBucketOf(n) == IF n >= Len(KnowMoreBuckets) - 1 THEN Len(KnowMoreBuckets) ELSE n + 1

KnowMoreSum(rows, u) == SumSeq(KnowMoreList(RowsOf(rows, u)))

\* Bucketing every row on its own count.
KnowMoreMembersPerRow(rows) ==
    [b \in 1 .. Len(KnowMoreBuckets) |->
        {u \in UniqueViewers(rows) :
            \E r \in RowsOf(rows, u) : KnowMoreBucketOf(r.knowMoreCount) = b}]

\* Bucketing every viewer on the sum over all their rows.
KnowMoreMembers(rows) ==
    [b \in 1 .. Len(KnowMoreBuckets) |->
        {u \in UniqueViewers(rows) : KnowMoreBucketOf(KnowMoreSum(rows, u)) = b}]

OutcomeColumns == {"liked", "disliked", "passed", "undecided"}

KnowMoreDistribution(rows) ==
    LET members == KnowMoreMembers(rows) IN
    [b \in 1 .. Len(KnowMoreBuckets) |->
        LET rs == {r \in rows : r.viewerId \in members[b]} IN
        [users |-> Cardinality(members[b]),
         pctOfUsers |-> Percentage(Cardinality(members[b]), Cardinality(UniqueViewers(rows))),
         outcomes |-> [c \in OutcomeColumns |-> CountUsersWhere(rs, c)]]]

(***************************************************************************)
(* METRIC 8: Ghost & Pass-Only segmentation                                *)
(***************************************************************************)
SegmentNames == {"active", "passOnly", "ghost", "neverViewed"}

\* The four membership tests, each evaluated on its own.
InSegmentIndependent(rows, u, s) ==
    CASE s = "active" -> u \in UsersWhere(rows, "liked")
      [] s = "passOnly" -> u \in UsersWhere(rows, "decided")
      [] s = "ghost" -> u \in UsersWhere(rows, "viewed")
      [] s = "neverViewed" -> u \notin UsersWhere(rows, "viewed")

\* The tests in priority order: active, else pass-only, else ghost, else
\* never-viewed.
InSegment(rows, u, s) ==
    LET liked == u \in UsersWhere(rows, "liked")
        decided == u \in UsersWhere(rows, "decided")
        viewed == u \in UsersWhere(rows, "viewed")
    IN CASE s = "active" -> liked
         [] s = "passOnly" -> ~liked /\ decided
         [] s = "ghost" -> ~liked /\ ~decided /\ viewed
         [] s = "neverViewed" -> ~liked /\ ~decided /\ ~viewed

Segments(rows) == [s \in SegmentNames |-> {u \in UniqueViewers(rows) : InSegment(rows, u, s)}]

SegmentCounts(rows) == [s \in SegmentNames |-> Cardinality(Segments(rows)[s])]

(***************************************************************************)
(* METRIC 5: Tier analysis                                                 *)
(***************************************************************************)
\* 5a: how the viewers of each tier behave (unique viewers).
ViewerTierPerformance(rows) ==
    [t \in Tiers |-> PerformanceRow({r \in rows : r.viewerTier = t})]

\* 5b: how the profiles of each tier perform (row counts).
CandidateRow(rs) ==
    [shown |-> CountRowsWhere(rs, "any"),
     viewed |-> CountRowsWhere(rs, "viewed"),
     viewPct |-> Percentage(CountRowsWhere(rs, "viewed"), CountRowsWhere(rs, "any")),
     kmAvg |-> Mean(KnowMoreList(rs)),
     liked |-> CountRowsWhere(rs, "liked"),
     likePct |-> Percentage(CountRowsWhere(rs, "liked"), CountRowsWhere(rs, "viewed")),
     disliked |-> CountRowsWhere(rs, "disliked"),
     dislikePct |-> Percentage(CountRowsWhere(rs, "disliked"), CountRowsWhere(rs, "viewed")),
     passed |-> CountRowsWhere(rs, "passed"),
     passPct |-> Percentage(CountRowsWhere(rs, "passed"), CountRowsWhere(rs, "viewed"))]

CandidateTierPerformance(rows) ==
    [t \in Tiers |-> CandidateRow({r \in rows : r.candidateTier = t})]

\* 5c: one cell of the 3 x 3 matrix, denominated against its own match count.
TierCell(rs) ==
    [viewPct |-> Percentage(CountRowsWhere(rs, "viewed"), Cardinality(rs)),
     likePct |-> Percentage(CountRowsWhere(rs, "liked"), Cardinality(rs)),
     kmAvg |-> Mean(KnowMoreList(rs)),
     n |-> Cardinality(rs)]

\* Grouping by the viewer tier alone, the candidate tier not looked at.
TierCellRowsViewerOnly(rows, vt, ct) == {r \in rows : r.viewerTier = vt}

TierCellRows(rows, vt, ct) == {r \in rows : r.viewerTier = vt /\ r.candidateTier = ct}

TierCrossMatrix(rows) == [vt \in Tiers, ct \in Tiers |-> TierCell(TierCellRows(rows, vt, ct))]

\* 5d: the rank table of one cell.
TierRankBreakdown(rows, vt, ct) == RankPerformance(TierCellRows(rows, vt, ct))

TierAnalysis(rows) ==
    [viewer |-> ViewerTierPerformance(rows),
     candidate |-> CandidateTierPerformance(rows),
     cross |-> TierCrossMatrix(rows)]

(***************************************************************************)
(* METRIC 6: Date-wise engagement                                          *)
(***************************************************************************)
RECURSIVE Ascending(_)
Ascending(S) ==
    IF S = {} THEN <<>>
    ELSE LET lo == CHOOSE x \in S : \A y \in S : x <= y
         IN <<lo>> \o Ascending(S \ {lo})

RowsOn(rows, d) == {r \in rows : r.createdAt = d}

\* 6a: three aligned per-date series.
Timeline(rows, dateSet) ==
    LET ds == Ascending(dateSet) IN
    [i \in 1 .. Len(ds) |->
        [withMatches |-> CountUsersWhere(RowsOn(rows, ds[i]), "any"),
         viewed |-> CountUsersWhere(RowsOn(rows, ds[i]), "viewed"),
         liked |-> CountUsersWhere(RowsOn(rows, ds[i]), "liked")]]

\* The viewers engaged (viewed or decided) on date d.
ActiveSet(rows, d) == UsersWhere(RowsOn(rows, d), "active")

ActiveDateCountByRows(rows, dateSet, u) ==
    Cardinality({r \in rows : r.viewerId = u /\ r.createdAt \in dateSet /\ Satisfies("active", r)})

ActiveDateCount(rows, dateSet, u) ==
    Cardinality({d \in dateSet : u \in ActiveSet(rows, d)})

\* The retention table of the 3-date example, kept whatever N is.
RetentionBucketsFixed(dateSet) == 0 .. 3

\* 6b: buckets 1 .. N plus the 0 / none bucket, N the number of selected dates.
RetentionBuckets(dateSet) == 0 .. Cardinality(dateSet)

RetentionMembers(rows, dateSet) ==
    [k \in RetentionBuckets(dateSet) |->
        {u \in UniqueViewers(rows) : ActiveDateCount(rows, dateSet, u) = k}]

Retention(rows, dateSet) ==
    LET members == RetentionMembers(rows, dateSet) IN
    [k \in RetentionBuckets(dateSet) |-> Cardinality(members[k])]

\* A cell counted by scanning the rows again for the second date.
OverlapCellRescan(rows, di, dj) ==
    {u \in ActiveSet(rows, di) : \E r \in rows : r.viewerId = u /\ r.createdAt = dj}

\* 6c: the viewers of one cell, from the per-date active-viewer sets.
OverlapCell(rows, di, dj) ==
    IF di = dj THEN ActiveSet(rows, di)
    ELSE ActiveSet(rows, di) \cap ActiveSet(rows, dj)

OverlapMembers(rows, dateSet) ==
    LET ds == Ascending(dateSet) IN
    [i \in 1 .. Len(ds), j \in 1 .. Len(ds) |-> OverlapCell(rows, ds[i], ds[j])]

OverlapMatrix(rows, dateSet) ==
    LET ds == Ascending(dateSet)
        members == OverlapMembers(rows, dateSet)
    IN [i \in 1 .. Len(ds), j \in 1 .. Len(ds) |-> Cardinality(members[i, j])]

ViewedRowCount(rows, u) == CountRowsWhere(RowsOf(rows, u), "viewed")

RECURSIVE ListOver(_, _)
ListOver(f, S) ==
    IF S = {} THEN <<>>
    ELSE LET x == CHOOSE y \in S : TRUE IN <<f[x]>> \o ListOver(f, S \ {x})

\* 8a: ghosts by number of viewed rows: 1-2, 3-5, 6-8, 9.
GhostBuckets == <<"1-2", "3-5", "6-8", "9">>

GhostBucketOf(n) == IF n <= 2 THEN 1 ELSE IF n <= 5 THEN 2 ELSE IF n <= 8 THEN 3 ELSE 4

GhostBreakdown(rows) ==
    LET ghosts == Segments(rows)["ghost"] IN
    [b \in 1 .. Len(GhostBuckets) |->
        LET us == {u \in ghosts : GhostBucketOf(ViewedRowCount(rows, u)) = b} IN
        [users |-> Cardinality(us), pct |-> Percentage(Cardinality(us), Cardinality(ghosts))]]

\* 8b: pass-only users by their decisions: all passed, all disliked, mixed.
PassOnlyPatterns == {"allPassed", "allDisliked", "mixed"}

PassOnlyPatternOf(rows, u) ==
    IF u \notin UsersWhere(rows, "disliked") THEN "allPassed"
    ELSE IF u \notin UsersWhere(rows, "passed") THEN "allDisliked"
    ELSE "mixed"

PassOnlyBreakdown(rows) ==
    LET passOnly == Segments(rows)["passOnly"] IN
    [q \in PassOnlyPatterns |->
        LET us == {u \in passOnly : PassOnlyPatternOf(rows, u) = q} IN
        [users |-> Cardinality(us), pct |-> Percentage(Cardinality(us), Cardinality(passOnly))]]

\* 8c: the segment summary.
SegmentSummary(rows) ==
    [s \in SegmentNames |->
        LET us == Segments(rows)[s] IN
        [count |-> Cardinality(us),
         pctOfUsers |-> Percentage(Cardinality(us), Cardinality(UniqueViewers(rows))),
         avgViewed |-> Mean(ListOver([u \in us |-> ViewedRowCount(rows, u)], us)),
         avgKnowMore |-> Mean(ListOver([u \in us |-> KnowMoreSum(rows, u)], us))]]

GhostAndPassOnly(rows) ==
    [ghosts |-> GhostBreakdown(rows),
     passOnly |-> PassOnlyBreakdown(rows),
     segments |-> SegmentSummary(rows)]

\* 6b special segments, derived from the per-date active-viewer sets.
Loyal(rows, dateSet) == RetentionMembers(rows, dateSet)[Cardinality(dateSet)]

OneTime(rows, dateSet) ==
    IF 1 \in RetentionBuckets(dateSet) THEN RetentionMembers(rows, dateSet)[1] ELSE {}

\* Churned taken as "engaged on the first date", the later dates not looked at.
ChurnedFirstDate(rows, dateSet) ==
    IF dateSet = {} THEN {}
    ELSE ActiveSet(rows, Ascending(dateSet)[1])

Churned(rows, dateSet) ==
    IF dateSet = {} THEN {}
    ELSE LET first == Ascending(dateSet)[1] IN
         {u \in ActiveSet(rows, first) : \A d \in dateSet \ {first} : u \notin ActiveSet(rows, d)}

LateAdopters(rows, dateSet) ==
    IF dateSet = {} THEN {}
    ELSE LET first == Ascending(dateSet)[1] IN
         {u \in UniqueViewers(rows) \ ActiveSet(rows, first) :
             \E d \in dateSet \ {first} : u \in ActiveSet(rows, d)}

DateEngagement(rows, dateSet) ==
    [timeline |-> Timeline(rows, dateSet),
     retention |-> LET counts == Retention(rows, dateSet) IN
                   [k \in RetentionBuckets(dateSet) |->
                      [users |-> counts[k],
                       pct |-> Percentage(counts[k], Cardinality(UniqueViewers(rows)))]],
     segments |-> [loyal |-> Cardinality(Loyal(rows, dateSet)),
                   churned |-> Cardinality(Churned(rows, dateSet)),
                   lateAdopters |-> Cardinality(LateAdopters(rows, dateSet)),
                   oneTime |-> Cardinality(OneTime(rows, dateSet))],
     overlap |-> OverlapMatrix(rows, dateSet)]

(***************************************************************************)
(* SnapshotAssembler                                                       *)
(***************************************************************************)
Snapshot(rows, dateSet) ==
    [funnel |-> [counts |-> Funnel(rows), percentages |-> FunnelPercentages(rows)],
     hours |-> HourDistribution(rows),
     latency |-> DecisionLatency(rows),
     rank |-> RankPerformance(rows),
     tier |-> TierAnalysis(rows),
     dates |-> DateEngagement(rows, dateSet),
     knowMore |-> KnowMoreDistribution(rows),
     ghost |-> GhostAndPassOnly(rows)]

\* Every number of a table whose rows are records: table[i][f].
TableValues(table) == {table[i][f] : i \in DOMAIN table, f \in DOMAIN table[CHOOSE j \in DOMAIN table : TRUE]}

\* Every count, percentage and average in a snapshot.
SnapshotValues(snap) ==
    {snap.funnel.counts[p] : p \in DOMAIN snap.funnel.counts}
    \cup TableValues(snap.funnel.percentages)
    \cup UNION {TableValues(snap.hours[k]) : k \in DOMAIN snap.hours}
    \cup UNION {{snap.latency.distributions[k].buckets[b] : b \in DOMAIN snap.latency.distributions[k].buckets}
                \cup {snap.latency.distributions[k].mean, snap.latency.distributions[k].median} :
                k \in DOMAIN snap.latency.distributions}
    \cup {snap.latency.diagnostics.negativeLatency}
    \cup TableValues(snap.rank)
    \cup TableValues(snap.tier.viewer)
    \cup TableValues(snap.tier.candidate)
    \cup TableValues(snap.tier.cross)
    \cup (IF DOMAIN snap.dates.timeline = {} THEN {} ELSE TableValues(snap.dates.timeline))
    \cup TableValues(snap.dates.retention)
    \cup {snap.dates.segments[f] : f \in DOMAIN snap.dates.segments}
    \cup {snap.dates.overlap[c] : c \in DOMAIN snap.dates.overlap}
    \cup {snap.knowMore[b].users : b \in DOMAIN snap.knowMore}
    \cup {snap.knowMore[b].pctOfUsers : b \in DOMAIN snap.knowMore}
    \cup UNION {{snap.knowMore[b].outcomes[c] : c \in DOMAIN snap.knowMore[b].outcomes} :
                b \in DOMAIN snap.knowMore}
    \cup TableValues(snap.ghost.ghosts)
    \cup TableValues(snap.ghost.passOnly)
    \cup TableValues(snap.ghost.segments)

(***************************************************************************)
(* Operations                                                              *)
(***************************************************************************)
(***************************************************************************)
(* email.js: Gmail compose URLs and batching.                              *)
(* An email address is a string.  A subject or body is a text given as    *)
(* runs of characters of one class: "unreserved" (A-Z a-z 0-9 - _ . ! ~ * *)
(* ' ( ), kept by encodeURIComponent), "escaped" (other ASCII, %XX),       *)
(* "utf8x2", "utf8x3" (two and three UTF-8 bytes) and "astral" (four).     *)
(* A URL is represented by its length, all that batchEmails reads of it.   *)
(***************************************************************************)
MAX_URL_LENGTH == 1800

Run(class, n) == [class |-> class, n |-> n]

EncodedUnits(class) ==
    CASE class = "unreserved" -> 1
      [] class = "escaped" -> 3
      [] class = "utf8x2" -> 6
      [] class = "utf8x3" -> 9
      [] class = "astral" -> 12

\* The length of encodeURIComponent(text).
RECURSIVE encodeURIComponent(_)
encodeURIComponent(text) ==
    IF text = <<>> THEN 0
    ELSE Head(text).n * EncodedUnits(Head(text).class) + encodeURIComponent(Tail(text))

\* The length of emails.join(",").
RECURSIVE JoinLength(_)
JoinLength(emails) ==
    IF emails = <<>> THEN 0
    ELSE IF Len(emails) = 1 THEN Len(emails[1])
    ELSE Len(emails[1]) + 1 + JoinLength(Tail(emails))

\* The length of the compose URL.
generateGmailUrl(emails, subject, body) ==
    Len("https://mail.google.com/mail/u/0/?fs=1&bcc=") + JoinLength(emails)
    + Len("&su=") + encodeURIComponent(subject)
    + Len("&body=") + encodeURIComponent(body) + Len("&tf=cm")

\* A batch counted full one email late.
BatchFullOffByOne(currentBatch, maxBatchSize) == Len(currentBatch) > maxBatchSize

BatchFull(currentBatch, maxBatchSize) == Len(currentBatch) >= maxBatchSize

\* The batch restarted empty, the overflowing email dropped.
RestartedEmpty(email) == <<>>

\* The batch restarted with the email that made the URL too long.
Restarted(email) == <<email>>

\* One pass of the for loop per email, then the last batch.
RECURSIVE BatchLoop(_, _, _, _, _, _)
BatchLoop(emails, subject, body, maxBatchSize, batches, currentBatch) ==
    IF emails = <<>>
    THEN IF Len(currentBatch) > 0 THEN Append(batches, currentBatch) ELSE batches
    ELSE LET email == Head(emails)
             pushed == Append(currentBatch, email)
             testUrl == generateGmailUrl(pushed, subject, body)
             popped == SubSeq(pushed, 1, Len(pushed) - 1)
         IN IF testUrl > MAX_URL_LENGTH \/ BatchFull(pushed, maxBatchSize)
            THEN IF testUrl > MAX_URL_LENGTH
                 THEN BatchLoop(Tail(emails), subject, body, maxBatchSize,
                                IF Len(popped) > 0 THEN Append(batches, popped) ELSE batches,
                                Restarted(email))
                 ELSE BatchLoop(Tail(emails), subject, body, maxBatchSize,
                                Append(batches, pushed), <<>>)
            ELSE BatchLoop(Tail(emails), subject, body, maxBatchSize, batches, pushed)

batchEmails(emails, subject, body, maxBatchSize) ==
    BatchLoop(emails, subject, body, maxBatchSize, <<>>, <<>>)

\* CONFIG as it stands in the file.
ConfigSubject == <<Run("unreserved", 39), Run("escaped", 8), Run("utf8x3", 1)>>

ConfigBody == <<Run("unreserved", 416), Run("escaped", 97), Run("utf8x3", 1)>>

ConfigTestEmails ==
    <<"aryan@heywavelength.com", "jayanth@heywavelength.com", "vinit@heywavelength.com",
      "ishaan@heywavelength.com", "chetan@heywavelength.com">>

ConfigBatchSize == 25

\* CONFIG.userIds: the users to mail, NumUsers of them.
ConfigUserIds == [i \in 1 .. NumUsers |-> i]

CONFIG ==
    [userIds |-> ConfigUserIds, subject |-> ConfigSubject, maleBody |-> ConfigBody, femaleBody |-> ConfigBody,
     batchSize |-> ConfigBatchSize, testEmails |-> ConfigTestEmails]

\* A gender value is the list of its character codes; null and "" (both
\* falsy) are the empty list.  A missing email (null or "") is "".
Male == <<109, 97, 108, 101>>
Female == <<102, 101, 109, 97, 108, 101>>

toLowerCaseMissing(str) == str

\* String.prototype.toLowerCase on A-Z.
toLowerCase(str) == [i \in DOMAIN str |-> IF str[i] \in 65 .. 90 THEN str[i] + 32 ELSE str[i]]

\* userMetadata.find((um) => um.user_id === id): the first record of the
\* user, as a list of at most one record.
Find(metadata, id) ==
    LET hits == SelectSeq(metadata, LAMBDA um : um.user_id = id) IN
    IF hits = <<>> THEN <<>> ELSE <<Head(hits)>>

\* Merge: email from user_data, gender from user_metadata (null if none).
MergeUsers(ud, um) ==
    [i \in 1 .. Len(ud) |->
        [user_id |-> ud[i].user_id,
         user_email |-> ud[i].user_email,
         gender |-> IF Find(um, ud[i].user_id) = <<>> THEN <<>>
                    ELSE Find(um, ud[i].user_id)[1].gender]]

IsMale(u) == u.gender # <<>> /\ toLowerCase(u.gender) = Male /\ u.user_email # ""

IsFemale(u) == u.gender # <<>> /\ toLowerCase(u.gender) = Female /\ u.user_email # ""

EmailsOf(us) == [i \in 1 .. Len(us) |-> us[i].user_email]

IdsOf(us) == [i \in 1 .. Len(us) |-> us[i].user_id]

\* batch.includes(u.user_email)
Includes(batch, email) == \E k \in 1 .. Len(batch) : batch[k] = email

BatchNumberFromZero(index) == index

\* The batch number of the batch at (0-based) position index.
BatchNumber(index) == index + 1

\* The data rows of one CSV: the test batch, then one row per user batch.
CsvRows(cfg, body, us, batches) ==
    <<[batch_number |-> 0, email_count |-> Len(cfg.testEmails), isTestBatch |-> TRUE,
       user_ids |-> <<"test_users">>, emails |-> cfg.testEmails,
       gmail_link |-> generateGmailUrl(cfg.testEmails, cfg.subject, body)]>>
    \o [i \in 1 .. Len(batches) |->
          [batch_number |-> BatchNumber(i - 1), email_count |-> Len(batches[i]),
           isTestBatch |-> FALSE,
           user_ids |-> IdsOf(SelectSeq(us, LAMBDA u : Includes(batches[i], u.user_email))),
           emails |-> batches[i],
           gmail_link |-> generateGmailUrl(batches[i], cfg.subject, body)]]

NoCall == [emails |-> <<>>, subject |-> <<>>, body |-> <<>>, maxBatchSize |-> 0]

\* The utility not started.
MailerIdle ==
    /\ pc = "idle"
    /\ config = CONFIG
    /\ call = NoCall
    /\ returned = <<>>
    /\ exitCode = <<>> /\ queries = <<>>
    /\ userData = <<>> /\ userMetadata = <<>> /\ users = <<>>
    /\ maleUsers = <<>> /\ femaleUsers = <<>>
    /\ maleBatches = <<>> /\ femaleBatches = <<>>
    /\ maleCsv = <<>> /\ femaleCsv = <<>>

\* The runs of the triple view, none started.
RunIds == {"any", "male", "female"}

NoResult == [funnel |-> <<>>, segments |-> <<>>]

IdleRuns == [i \in RunIds |-> [pc |-> "idle", view |-> {}, result |-> NoResult]]

\* The dashboard not started.
DashboardIdle ==
    /\ matches = {}
    /\ attributes = NoAttributes
    /\ filterSpec = DefaultFilter
    /\ view = {}
    /\ runs = IdleRuns

TypeOK ==
    /\ IsFiniteSet(matches)
    /\ DOMAIN attributes \subseteq Users
    /\ filterSpec.dateSet \subseteq Dates
    /\ view = Filter(matches, attributes, filterSpec)

InitEmpty ==
    /\ matches = {}
    /\ attributes = NoAttributes
    /\ filterSpec = DefaultFilter
    /\ view = {}
    /\ runs = IdleRuns
    /\ MailerIdle

InitDirectory ==
    /\ matches = {}
    /\ attributes = SampleDirectory
    /\ filterSpec = DefaultFilter
    /\ view = {}
    /\ runs = IdleRuns
    /\ MailerIdle

\* A refresh after one more row has appeared in user_matches: the store is
\* rebuilt and the filtered view recomputed for the filter in force.
LoadMatch(s) ==
    /\ Cardinality(matches) < MaxRows
    /\ WellFormed(s)
    /\ NextRank(matches, s) <= MaxRank
    /\ matches' = matches \cup
          {s @@ [rank |-> NextRank(matches, s)]}
    /\ view' = Filter(matches', attributes, filterSpec)
    /\ UNCHANGED <<attributes, filterSpec, precompute, mailer>>

\* A refresh after one more record has appeared in user_metadata.
LoadAttribute(u, g, t) ==
    /\ u \notin DOMAIN attributes
    /\ attributes' = [x \in DOMAIN attributes \cup {u} |->
                          IF x = u THEN [gender |-> g, tier |-> t] ELSE attributes[x]]
    /\ view' = Filter(matches, attributes', filterSpec)
    /\ UNCHANGED <<matches, filterSpec, precompute, mailer>>

\* A filter interaction: a fresh FilterSpec, a fresh derived view.
SetFilter(spec) ==
    /\ spec # filterSpec
    /\ filterSpec' = spec
    /\ view' = Filter(matches, attributes, spec)
    /\ UNCHANGED <<matches, attributes, precompute, mailer>>

\* The FilterSpec of a precomputation run: all dates, all tiers, its gender.
RunSpec(i) == [DefaultFilter EXCEPT !.gender = i]

AllIdle == \A i \in RunIds : runs[i].pc = "idle"

\* A run reading the session's filtered view in place of its own.
RunInputShared(i) == view

\* What the aggregators of run i read: the view the run derived itself.
RunInput(i) == runs[i].view

\* Step 1 of a run: FilterEngine derives the run's own view of the store.
StartFilter(i) ==
    /\ runs[i].pc = "idle"
    /\ runs' = [runs EXCEPT ![i] = [pc |-> "filtered",
                                     view |-> Filter(matches, attributes, RunSpec(i)),
                                     result |-> NoResult]]
    /\ UNCHANGED <<matches, attributes, filterSpec, view, mailer>>

\* Step 2: the first aggregator writes its part of the run's result.
AggregateFunnel(i) ==
    /\ runs[i].pc = "filtered"
    /\ runs' = [runs EXCEPT ![i].pc = "partial",
                            ![i].result.funnel = Funnel(RunInput(i))]
    /\ UNCHANGED <<matches, attributes, filterSpec, view, mailer>>

\* Step 3: the last aggregator completes the result.
AggregateSegments(i) ==
    /\ runs[i].pc = "partial"
    /\ runs' = [runs EXCEPT ![i].pc = "done",
                            ![i].result.segments = SegmentCounts(RunInput(i))]
    /\ UNCHANGED <<matches, attributes, filterSpec, view, mailer>>

\* The store is rebuilt by a refresh only while no run is under way.
Refresh(s) == AllIdle /\ LoadMatch(s)

dashboard == <<matches, attributes, filterSpec, view, runs>>

\* A configured user id is a positive number; 0 stands for an entry that is
\* empty or blank.  userIds: the configured ids that are not blank.
UserIds(cfg) == SelectSeq(cfg.userIds, LAMBDA id : id # 0)

Queried(table, failed) == [table |-> table, error |-> failed]

\* The records of a select are of users asked for.
Selected(records) ==
    \A i \in 1 .. Len(records) :
        \E k \in 1 .. Len(UserIds(config)) : records[i].user_id = UserIds(config)[k]

\* generateEmailBatches: no user id in CONFIG, process.exit(0).
ExitNoUserIds ==
    /\ pc = "start"
    /\ UserIds(config) = <<>>
    /\ exitCode' = <<0>>
    /\ pc' = "exited"
    /\ UNCHANGED <<dashboard, config, call, returned, queries, userData, userMetadata, users,
                   maleUsers, femaleUsers, maleBatches, femaleBatches, maleCsv, femaleCsv>>

\* The select from user_data returns its records.
FetchUserData(ud) ==
    /\ pc = "start"
    /\ UserIds(config) # <<>>
    /\ Selected(ud)
    /\ queries' = Append(queries, Queried("user_data", FALSE))
    /\ userData' = ud
    /\ pc' = "userDataFetched"
    /\ UNCHANGED <<dashboard, config, call, returned, exitCode, userMetadata, users,
                   maleUsers, femaleUsers, maleBatches, femaleBatches, maleCsv, femaleCsv>>

\* The error of the select from user_data taken for a result.
UserDataErrorIgnored ==
    /\ pc = "start"
    /\ UserIds(config) # <<>>
    /\ queries' = Append(queries, Queried("user_data", TRUE))
    /\ pc' = "userDataFetched"
    /\ UNCHANGED <<dashboard, config, call, returned, exitCode, userData, userMetadata, users,
                   maleUsers, femaleUsers, maleBatches, femaleBatches, maleCsv, femaleCsv>>

\* The select from user_data fails, process.exit(1).
UserDataError ==
    /\ pc = "start"
    /\ UserIds(config) # <<>>
    /\ queries' = Append(queries, Queried("user_data", TRUE))
    /\ exitCode' = <<1>>
    /\ pc' = "exited"
    /\ UNCHANGED <<dashboard, config, call, returned, userData, userMetadata, users,
                   maleUsers, femaleUsers, maleBatches, femaleBatches, maleCsv, femaleCsv>>

\* The select from user_metadata returns its records.
FetchUserMetadata(um) ==
    /\ pc = "userDataFetched"
    /\ Selected(um)
    /\ queries' = Append(queries, Queried("user_metadata", FALSE))
    /\ userMetadata' = um
    /\ pc' = "fetched"
    /\ UNCHANGED <<dashboard, config, call, returned, exitCode, userData, users,
                   maleUsers, femaleUsers, maleBatches, femaleBatches, maleCsv, femaleCsv>>

\* The select from user_metadata fails, process.exit(1).
UserMetadataError ==
    /\ pc = "userDataFetched"
    /\ queries' = Append(queries, Queried("user_metadata", TRUE))
    /\ exitCode' = <<1>>
    /\ pc' = "exited"
    /\ UNCHANGED <<dashboard, config, call, returned, userData, userMetadata, users,
                   maleUsers, femaleUsers, maleBatches, femaleBatches, maleCsv, femaleCsv>>

\* One of the two selects fails.
FetchError == UserDataError \/ UserMetadataError

\* Merge, separate by gender, generate the batches.
GenerateBatches ==
    /\ pc = "fetched"
    /\ users' = MergeUsers(userData, userMetadata)
    /\ maleUsers' = SelectSeq(users', IsMale)
    /\ femaleUsers' = SelectSeq(users', IsFemale)
    /\ maleBatches' = batchEmails(EmailsOf(maleUsers'), config.subject, config.maleBody,
                                  config.batchSize)
    /\ femaleBatches' = batchEmails(EmailsOf(femaleUsers'), config.subject, config.femaleBody,
                                    config.batchSize)
    /\ pc' = "batched"
    /\ UNCHANGED <<dashboard, config, call, returned, exitCode, queries, userData, userMetadata,
                   maleCsv, femaleCsv>>

WriteMaleCsv ==
    /\ pc = "batched"
    /\ maleCsv' = CsvRows(config, config.maleBody, maleUsers, maleBatches)
    /\ pc' = "maleWritten"
    /\ UNCHANGED <<dashboard, config, call, returned, exitCode, queries, userData, userMetadata, users,
                   maleUsers, femaleUsers, maleBatches, femaleBatches, femaleCsv>>

WriteFemaleCsv ==
    /\ pc = "maleWritten"
    /\ femaleCsv' = CsvRows(config, config.femaleBody, femaleUsers, femaleBatches)
    /\ pc' = "done"
    /\ UNCHANGED <<dashboard, config, call, returned, exitCode, queries, userData, userMetadata, users,
                   maleUsers, femaleUsers, maleBatches, femaleBatches, maleCsv>>

\* batchEmails(emails, subject, body, maxBatchSize) runs and returns.
ReturnBatches ==
    /\ pc = "called"
    /\ returned' = batchEmails(call.emails, call.subject, call.body, call.maxBatchSize)
    /\ pc' = "returned"
    /\ UNCHANGED <<matches, attributes, filterSpec, view, runs, config, call, exitCode,
                   queries, userData, userMetadata, users, maleUsers, femaleUsers,
                   maleBatches, femaleBatches, maleCsv, femaleCsv>>

(***************************************************************************)
(* Funnel and segmentation over one day of matches.                        *)
(***************************************************************************)
RowsSegments ==
    {Shape(v, OtherUser(v), 1, vw, IF vw THEN <<0>> ELSE <<>>,
           dec, IF dec = "null" THEN <<>> ELSE <<1>>, 0) :
        v \in Users, vw \in BOOLEAN, dec \in Decisions \cup {"null"}}

FiltersSegments ==
    {[dateSet |-> {}, gender |-> g, tier |-> "any"] : g \in {"any", "male", "female"}}

NextSegments ==
    \/ \E s \in RowsSegments : LoadMatch(s)
    \/ \E f \in FiltersSegments : SetFilter(f)

SpecSegments == InitDirectory /\ [][NextSegments]_vars

\* C1: classifying every viewer of the filtered view in priority order
\* (active, else pass-only, else ghost, else never-viewed) puts each viewer
\* in exactly one segment: no viewer id is in two segment sets and the four
\* counts sum to the number of unique viewers.
SegmentsPartition ==
    /\ \A s, t \in SegmentNames : s # t => Segments(view)[s] \cap Segments(view)[t] = {}
    /\ \A u \in UniqueViewers(view) : Cardinality({s \in SegmentNames : u \in Segments(view)[s]}) = 1
    /\ SumOver(SegmentCounts(view), SegmentNames) = Cardinality(UniqueViewers(view))

\* A viewer who viewed and liked one match and rejected another passes the
\* liked, the decided and the viewed test, and is in the active segment only.
SegmentsPartitionWitness ==
    \E u \in UniqueViewers(view) :
        /\ u \in UsersWhere(view, "liked")
        /\ u \in UsersWhere(view, "disliked") \cup UsersWhere(view, "passed")
        /\ u \in UsersWhere(view, "viewed")
        /\ {s \in SegmentNames : u \in Segments(view)[s]} = {"active"}

\* C2: a viewer is counted at most once in each of decided, liked, disliked
\* and passed; each category count is at most the decided count, and the
\* decided count is at most liked + disliked + passed.
FunnelAnyRow ==
    LET f == Funnel(view) IN
    /\ \A u \in Users : \A p \in {"decided", "liked", "disliked", "passed"} :
          Funnel(RowsOf(view, u))[p] <= 1
    /\ f["liked"] <= f["decided"]
    /\ f["disliked"] <= f["decided"]
    /\ f["passed"] <= f["decided"]
    /\ f["decided"] <= f["liked"] + f["disliked"] + f["passed"]

\* One viewer with a liked row and a disliked row: once in liked, once in
\* disliked, once in decided, so the sum exceeds decided.
FunnelAnyRowWitness ==
    LET f == Funnel(view) IN
    /\ \E u \in Users :
          /\ \E r \in view : r.viewerId = u /\ r.decision = "liked"
          /\ \E r \in view : r.viewerId = u /\ r.decision = "disliked"
          /\ Funnel(RowsOf(view, u))["liked"] = 1
          /\ Funnel(RowsOf(view, u))["disliked"] = 1
          /\ Funnel(RowsOf(view, u))["decided"] = 1
    /\ f["liked"] + f["disliked"] + f["passed"] > f["decided"]

(***************************************************************************)
(* Date-wise engagement over any selection of dates.                       *)
(***************************************************************************)
RowsDates ==
    {Shape(v, OtherUser(v), d, a = "viewed", IF a = "viewed" THEN <<0>> ELSE <<>>,
           IF a = "decided" THEN "passed" ELSE "null",
           IF a = "decided" THEN <<1>> ELSE <<>>, 0) :
        v \in Users, d \in Dates, a \in {"none", "viewed", "decided"}}

FiltersDates == {[dateSet |-> ds, gender |-> "any", tier |-> "any"] : ds \in SUBSET Dates}

NextDates ==
    \/ \E s \in RowsDates : LoadMatch(s)
    \/ \E f \in FiltersDates : SetFilter(f)

SpecDates == InitDirectory /\ [][NextDates]_vars

SelectedDates == filterSpec.dateSet

NumSelected == Cardinality(SelectedDates)

\* The selected dates on which viewer u has a row that is viewed or decided.
EngagedDates(u) ==
    {d \in SelectedDates :
        \E r \in view : r.viewerId = u /\ r.createdAt = d /\ (r.viewed \/ r.decision # "null")}

\* C3: with N >= 1 selected dates there are exactly the N + 1 buckets 0 .. N,
\* every viewer with a match on the selected dates is in exactly the bucket
\* of the number of selected dates on which they viewed or decided, and the
\* bucket counts (bucket 0 included) sum to the unique viewers.
RetentionPartition ==
    NumSelected >= 1 =>
        LET members == RetentionMembers(view, SelectedDates)
            counts == Retention(view, SelectedDates)
        IN /\ DOMAIN counts = 0 .. NumSelected
           /\ Cardinality(DOMAIN counts) = NumSelected + 1
           /\ \A u \in UniqueViewers(view) :
                 {k \in DOMAIN members : u \in members[k]} = {Cardinality(EngagedDates(u))}
           /\ SumOver(counts, DOMAIN counts) = Cardinality(UniqueViewers(view))

\* Two selected dates and a viewer engaged on both: the table has the three
\* buckets 0, 1, 2 and the viewer is the one counted in bucket 2.
RetentionPartitionWitness ==
    /\ NumSelected = 2
    /\ \E u \in UniqueViewers(view) :
          /\ Cardinality(EngagedDates(u)) = 2
          /\ Retention(view, SelectedDates)[2] = 1
    /\ DOMAIN Retention(view, SelectedDates) = {0, 1, 2}

\* The viewers with an engaged row on date d and an engaged row on date e.
EngagedOnBoth(d, e) == {u \in UniqueViewers(view) : d \in EngagedDates(u) /\ e \in EngagedDates(u)}

\* C4: the overlap matrix is N x N and symmetric, cell (i,i) is the size of
\* date i's active-viewer set (so the sizes sum to the diagonal), and every
\* off-diagonal cell is the size of the intersection of the two active
\* sets, hence at most the smaller of the two diagonal cells.
OverlapSymmetric ==
    LET ds == Ascending(SelectedDates)
        n == NumSelected
        cell == OverlapMatrix(view, SelectedDates)
        sizes == [i \in 1 .. n |-> Cardinality(EngagedOnBoth(ds[i], ds[i]))]
        diag == [i \in 1 .. n |-> cell[i, i]]
    IN /\ DOMAIN cell = (1 .. n) \X (1 .. n)
       /\ \A i, j \in 1 .. n : cell[i, j] = cell[j, i]
       /\ \A i \in 1 .. n : cell[i, i] = sizes[i]
       /\ SumOver(sizes, 1 .. n) = SumOver(diag, 1 .. n)
       /\ \A i, j \in 1 .. n :
             i # j => /\ cell[i, j] = Cardinality(EngagedOnBoth(ds[i], ds[j]))
                      /\ cell[i, j] <= Min(cell[i, i], cell[j, j])

\* Three selected dates, one viewer engaged on the first and the last: the
\* 3 x 3 matrix has 1 on those two diagonal cells and in the cell pairing
\* them, and 0 wherever the middle date is involved.
OverlapSymmetricWitness ==
    LET cell == OverlapMatrix(view, SelectedDates) IN
    /\ NumSelected = 3
    /\ cell[1, 1] = 1 /\ cell[3, 3] = 1 /\ cell[1, 3] = 1
    /\ cell[2, 2] = 0 /\ cell[1, 2] = 0

Triangle(k) == (k * (k - 1)) \div 2

\* C10: a viewer engaged on exactly k of the N selected dates is counted in
\* retention bucket k, in exactly k diagonal cells, and in off-diagonal cell
\* (i,j) exactly for the pairs of distinct dates on which they were both
\* engaged (k(k-1)/2 unordered pairs); the sum over k of k * bucket[k]
\* equals the sum of the diagonal.
RetentionOverlapAgree ==
    LET ds == Ascending(SelectedDates)
        n == NumSelected
        members == RetentionMembers(view, SelectedDates)
        counts == Retention(view, SelectedDates)
        inCell == OverlapMembers(view, SelectedDates)
        cell == OverlapMatrix(view, SelectedDates)
        weighted == [k \in DOMAIN counts |-> k * counts[k]]
        diag == [i \in 1 .. n |-> cell[i, i]]
    IN /\ \A u \in UniqueViewers(view) :
             LET k == Cardinality(EngagedDates(u)) IN
             /\ k \in DOMAIN members /\ u \in members[k]
             /\ Cardinality({i \in 1 .. n : u \in inCell[i, i]}) = k
             /\ \A i, j \in 1 .. n :
                   i # j => (u \in inCell[i, j] <=> {ds[i], ds[j]} \subseteq EngagedDates(u))
             /\ Cardinality({p \in (1 .. n) \X (1 .. n) : p[1] < p[2] /\ u \in inCell[p[1], p[2]]})
                   = Triangle(k)
       /\ SumOver(weighted, DOMAIN counts) = SumOver(diag, 1 .. n)

\* A viewer engaged on two of three selected dates: bucket 2, two diagonal
\* cells, one off-diagonal pair.
RetentionOverlapAgreeWitness ==
    /\ NumSelected = 3
    /\ \E u \in UniqueViewers(view) :
          /\ Cardinality(EngagedDates(u)) = 2
          /\ u \in RetentionMembers(view, SelectedDates)[2]
          /\ Cardinality({p \in (1 .. 3) \X (1 .. 3) :
                p[1] < p[2] /\ u \in OverlapMembers(view, SelectedDates)[p[1], p[2]]}) = 1

(***************************************************************************)
(* Time to decision: one viewer's rows, with latencies on, just below and  *)
(* above every bucket boundary, and decisions that precede the view.       *)
(***************************************************************************)
ViewedAtSample == 1

LatencySamples ==
    {BucketFrom[b] - 1 : b \in 1 .. NumBuckets} \cup {BucketFrom[b] : b \in 1 .. NumBuckets}

RowsLatency ==
    {Shape(1, OtherUser(1), 1, TRUE, <<ViewedAtSample>>, dec, <<ViewedAtSample + lat>>, 0) :
        dec \in {"liked", "disliked"}, lat \in LatencySamples}
    \cup {Shape(1, OtherUser(1), 1, TRUE, <<ViewedAtSample>>, "null", <<>>, 0)}
    \cup {Shape(1, OtherUser(1), 1, FALSE, <<>>, "passed", <<ViewedAtSample>>, 0)}

NextLatency ==
    \/ \E s \in RowsLatency : LoadMatch(s)
    \/ \E f \in FiltersSegments : SetFilter(f)

SpecLatency == InitDirectory /\ [][NextLatency]_vars

\* The (distribution, bucket) pairs that hold row r.
HoldersOf(r) ==
    {h \in LatencyKinds \X (1 .. NumBuckets) : r \in LatencyBucketRows(view, h[1], h[2])}

\* C5: a row with viewedAt, decidedAt and a decision is accounted for
\* exactly once.  Decided before viewed: in no distribution, and one of the
\* rows the negative-latency count counts.  Otherwise: in exactly one
\* distribution (liked, or disliked/passed) and exactly one bucket, the one
\* whose half-open interval [from, next from) holds the latency.  The
\* diagnostic count is the number of rows decided before viewed.
LatencyAccounting ==
    /\ \A r \in view :
          (Len(r.viewedAt) = 1 /\ Len(r.decidedAt) = 1 /\ r.decision # "null") =>
              LET lat == r.decidedAt[1] - r.viewedAt[1] IN
              IF r.decidedAt[1] < r.viewedAt[1]
              THEN /\ HoldersOf(r) = {}
                   /\ r \in NegativeLatencyRows(view)
              ELSE /\ Cardinality(HoldersOf(r)) = 1
                   /\ r \notin NegativeLatencyRows(view)
                   /\ \A h \in HoldersOf(r) :
                         /\ h[1] = "liked" <=> r.decision = "liked"
                         /\ BucketFrom[h[2]] <= lat
                         /\ h[2] < NumBuckets => lat < BucketFrom[h[2] + 1]
    /\ DecisionLatency(view).diagnostics.negativeLatency =
          Cardinality({r \in view : Len(r.viewedAt) = 1 /\ Len(r.decidedAt) = 1
                                    /\ r.decidedAt[1] < r.viewedAt[1]})

\* A row decided one minute before it was viewed next to a liked row whose
\* latency is exactly the 5-minute boundary: the first is counted once by
\* the diagnostic, the second sits in the bucket that starts at 5.
LatencyAccountingWitness ==
    /\ DecisionLatency(view).diagnostics.negativeLatency = 1
    /\ \E r \in view : /\ r.decision = "liked"
                       /\ Len(r.viewedAt) = 1
                       /\ r.decidedAt[1] - r.viewedAt[1] = 5
                       /\ HoldersOf(r) = {<<"liked", 3>>}

\* The (numerator, denominator) pairs the funnel and the rank table hand to
\* Percentage.
PercentageCalls(rows) ==
    {<<Funnel(rows)[p], Funnel(rows)["any"]>> : p \in DOMAIN Funnel(rows) \ {"any"}}
    \cup {<<Funnel(rows)[p], Funnel(rows)[PreviousStep(p)]>> : p \in DOMAIN Funnel(rows) \ {"any"}}
    \cup {<<RankPerformance(rows)[k].viewed, RankPerformance(rows)[k].total>> : k \in 1 .. MaxRank}
    \cup {<<RankPerformance(rows)[k][c], RankPerformance(rows)[k].viewed>> :
            k \in 1 .. MaxRank, c \in {"liked", "disliked", "passed"}}

\* C6: percentage(numerator, 0) is 0 for every numerator, a non-zero one
\* included, and no percentage of the funnel or of the rank table is the
\* outcome of a division by zero.
PercentageZeroDenominator ==
    /\ \A x \in 0 .. (MaxRows + NumUsers) : Percentage(x, 0) = 0
    /\ \A c \in PercentageCalls(view) :
          /\ Percentage(c[1], c[2]) # NaN
          /\ c[2] = 0 => Percentage(c[1], c[2]) = 0
    /\ \A p \in DOMAIN FunnelPercentages(view) :
          FunnelPercentages(view)[p].absolute # NaN /\ FunnelPercentages(view)[p].relative # NaN
    /\ \A k \in 1 .. MaxRank :
          \A c \in {"viewPct", "likePct", "dislikePct", "passPct"} : RankPerformance(view)[k][c] # NaN

\* A match liked without having been viewed: at its rank liked = 1 and
\* viewed = 0, so like% is percentage(1, 0).
PercentageZeroDenominatorWitness ==
    /\ <<1, 0>> \in PercentageCalls(view)
    /\ RankPerformance(view)[1].liked = 1
    /\ RankPerformance(view)[1].viewed = 0
    /\ RankPerformance(view)[1].likePct = 0

(***************************************************************************)
(* Know More distribution: rows that differ in decision and count.         *)
(***************************************************************************)
RowsKnowMore ==
    {Shape(v, OtherUser(v), 1, TRUE, <<0>>, dec, IF dec = "null" THEN <<>> ELSE <<1>>, km) :
        v \in Users, dec \in Decisions \cup {"null"}, km \in 0 .. MaxKnowMore}

NextKnowMore ==
    \/ \E s \in RowsKnowMore : LoadMatch(s)
    \/ \E f \in FiltersSegments : SetFilter(f)

SpecKnowMore == InitDirectory /\ [][NextKnowMore]_vars

\* The sum of knowMoreCount over the rows of viewer u in the view.
ClicksOf(u) ==
    LET rs == {r \in view : r.viewerId = u}
        count == [r \in rs |-> r.knowMoreCount]
    IN SumOver(count, rs)

RowsTriple ==
    {Shape(v, OtherUser(v), 1, FALSE, <<>>, "null", <<>>, 0) : v \in Users}
    \cup {Shape(v, OtherUser(v), 1, TRUE, <<0>>, "liked", <<1>>, 1) : v \in Users}
    \cup {Shape(v, OtherUser(v), 1, TRUE, <<0>>, "passed", <<1>>, 0) : v \in Users}

NextTriple ==
    \/ \E s \in RowsTriple : LoadMatch(s)
    \/ \E u \in Users, g \in Genders : LoadAttribute(u, g, "T1")
    \/ \E f \in FiltersSegments : SetFilter(f)

SpecTriple == InitEmpty /\ [][NextTriple]_vars

\* C7: with gender = any and tier = any, a row whose viewer has no
\* attribute record is in the filtered view, with viewer gender and tier
\* "unknown"; its viewer is in neither the male nor the female view; and for
\* every funnel step ALL = male + female + unknown-gender.
UnknownInAllOnly ==
    (filterSpec.gender = "any" /\ filterSpec.tier = "any") =>
        LET triple == TripleView(matches, attributes, filterSpec)
            unknown == {x \in view : x.viewerGender = "unknown"}
        IN /\ triple["any"] = view
           /\ \A r \in matches :
                 (r.viewerId \notin DOMAIN attributes
                    /\ (filterSpec.dateSet = {} \/ r.createdAt \in filterSpec.dateSet)) =>
                     /\ \E x \in view :
                           /\ x.viewerId = r.viewerId /\ x.createdAt = r.createdAt /\ x.rank = r.rank
                           /\ x.viewerGender = "unknown" /\ x.viewerTier = "unknown"
                     /\ r.viewerId \in UniqueViewers(view)
                     /\ r.viewerId \notin UniqueViewers(triple["male"])
                     /\ r.viewerId \notin UniqueViewers(triple["female"])
           /\ \A p \in DOMAIN Funnel(view) :
                 Funnel(view)[p] =
                    Funnel(triple["male"])[p] + Funnel(triple["female"])[p] + Funnel(unknown)[p]

\* A male viewer and a viewer without a record, each with a liked match:
\* ALL counts 2 users who liked, MALE 1, FEMALE 0.
UnknownInAllOnlyWitness ==
    LET triple == TripleView(matches, attributes, filterSpec) IN
    /\ filterSpec.gender = "any" /\ filterSpec.tier = "any"
    /\ \E r \in matches : r.viewerId \notin DOMAIN attributes /\ r.decision = "liked"
    /\ Funnel(view)["liked"] = 2
    /\ Funnel(triple["male"])["liked"] = 1
    /\ Funnel(triple["female"])["liked"] = 0

(***************************************************************************)
(* The whole snapshot over empty and non-empty tables and over filters     *)
(* that select some, all or none of the rows.                              *)
(***************************************************************************)
InitAny ==
    /\ matches = {}
    /\ attributes \in {NoAttributes, SampleDirectory}
    /\ filterSpec = DefaultFilter
    /\ view = {}
    /\ runs = IdleRuns
    /\ MailerIdle

RowsDegrade ==
    {Shape(v, OtherUser(v), d, FALSE, <<>>, "null", <<>>, 0) : v \in Users, d \in {1, NumDates}}
    \cup {Shape(v, OtherUser(v), d, TRUE, <<60>>, "liked", <<65>>, 1) : v \in Users, d \in {1, NumDates}}
    \cup {Shape(v, OtherUser(v), d, TRUE, <<60>>, "passed", <<59>>, 0) : v \in Users, d \in {1, NumDates}}

FiltersDegrade ==
    {[dateSet |-> ds, gender |-> "any", tier |-> "any"] : ds \in {{}, {1}, {2}, Dates}}
    \cup {[dateSet |-> {}, gender |-> "female", tier |-> "any"],
          [dateSet |-> {1}, gender |-> "any", tier |-> "T3"]}

NextDegrade ==
    \/ \E s \in RowsDegrade : LoadMatch(s)
    \/ \E f \in FiltersDegrade : SetFilter(f)

SpecDegrade == InitAny /\ [][NextDegrade]_vars

\* C8: for every input, empty tables, an empty date set and a filter that
\* selects no row included, the snapshot of all eight metrics holds no
\* outcome of a division by zero, and when the filtered view is empty every
\* count, percentage and average in it is 0.
DegradeToZero ==
    LET values == SnapshotValues(Snapshot(view, filterSpec.dateSet)) IN
    /\ view = Filter(matches, attributes, filterSpec)
    /\ NaN \notin values
    /\ \A x \in values : x >= 0
    /\ view = {} => values = {0}

\* Matches are loaded, dates are selected, and the filter selects no row.
DegradeToZeroWitness ==
    /\ matches # {}
    /\ filterSpec.dateSet # {}
    /\ view = {}
    /\ SnapshotValues(Snapshot(view, filterSpec.dateSet)) = {0}

\* No attribute record at all, no date selected, rows in the view: tables
\* with empty groups (ranks without a row, tiers without a viewer).
DegradeNoAttributesWitness ==
    /\ attributes = NoAttributes
    /\ filterSpec.dateSet = {}
    /\ view # {}
    /\ Snapshot(view, filterSpec.dateSet).rank[2].total = 0
    /\ Snapshot(view, filterSpec.dateSet).latency.diagnostics.negativeLatency = 1

(***************************************************************************)
(* Special retention segments against the retention buckets (SpecDates).   *)
(***************************************************************************)
EarliestSelected == Ascending(SelectedDates)[1]

\* C11: the special segments are determined by each viewer's set of engaged
\* dates and agree with the buckets: loyal = bucket N and one-time = bucket
\* 1; for N >= 2 every churned viewer is one-time, nobody is both churned
\* and late adopter, and a viewer engaged on at least one date is either
\* engaged on the earliest date or a late adopter, never both; for N = 1
\* loyal, one-time and churned are the same set.
SpecialSegmentsConsistent ==
    LET loyal == Loyal(view, SelectedDates)
        oneTime == OneTime(view, SelectedDates)
        churned == Churned(view, SelectedDates)
        late == LateAdopters(view, SelectedDates)
        buckets == Retention(view, SelectedDates)
        viewers == UniqueViewers(view)
    IN NumSelected >= 1 =>
        /\ loyal = {u \in viewers : EngagedDates(u) = SelectedDates}
        /\ oneTime = {u \in viewers : Cardinality(EngagedDates(u)) = 1}
        /\ churned = {u \in viewers : EngagedDates(u) = {EarliestSelected}}
        /\ late = {u \in viewers : EngagedDates(u) # {} /\ EarliestSelected \notin EngagedDates(u)}
        /\ Cardinality(loyal) = buckets[NumSelected]
        /\ Cardinality(oneTime) = buckets[1]
        /\ NumSelected >= 2 =>
              /\ churned \subseteq oneTime
              /\ churned \cap late = {}
              /\ \A u \in viewers : EngagedDates(u) # {} =>
                    (EarliestSelected \in EngagedDates(u)) # (u \in late)
        /\ NumSelected = 1 => (loyal = oneTime /\ oneTime = churned)

\* Several dates selected, one viewer engaged on the earliest date only and
\* another on a later date only: one churned, one late adopter, both
\* one-time, nobody loyal.
SpecialSegmentsWitness ==
    /\ NumSelected >= 2
    /\ Cardinality(Churned(view, SelectedDates)) = 1
    /\ Cardinality(LateAdopters(view, SelectedDates)) = 1
    /\ Cardinality(OneTime(view, SelectedDates)) = 2
    /\ Loyal(view, SelectedDates) = {}

\* One date selected and a viewer engaged on it: loyal, one-time and churned.
SpecialSegmentsOneDateWitness ==
    /\ NumSelected = 1
    /\ Loyal(view, SelectedDates) # {}
    /\ Loyal(view, SelectedDates) = Churned(view, SelectedDates)

(***************************************************************************)
(* The declarative segment definitions against the priority-order         *)
(* classification (SpecSegments).                                          *)
(***************************************************************************)
\* The four definitions as they are stated, each read on the rows of viewer u.
Declared(rows, u, s) ==
    LET rs == {r \in rows : r.viewerId = u} IN
    CASE s = "neverViewed" -> \A r \in rs : ~r.viewed
      [] s = "ghost" -> (\E r \in rs : r.viewed) /\ (\A r \in rs : r.decision = "null")
      [] s = "passOnly" -> (\E r \in rs : r.decision \in {"disliked", "passed"})
                             /\ (\A r \in rs : r.decision # "liked")
      [] s = "active" -> \E r \in rs : r.decision = "liked"

DeclaredOf(u) == {s \in SegmentNames : Declared(view, u, s)}

AssignedOf(u) == {s \in SegmentNames : u \in Segments(view)[s]}

DecidedUnviewed(u) ==
    /\ \E r \in view : r.viewerId = u /\ r.decision # "null"
    /\ \A r \in view : r.viewerId = u => ~r.viewed

\* C12 as stated: every viewer satisfies exactly one of the four declarative
\* definitions, and it is the segment the priority order assigns.
DeclaredSegmentsPartition ==
    \A u \in UniqueViewers(view) :
        Cardinality(DeclaredOf(u)) = 1 /\ DeclaredOf(u) = AssignedOf(u)

\* C12 amended: the ghost, pass-only and active definitions each coincide
\* with the priority-order classification (and so exclude each other);
\* every viewer satisfies at least one of the four definitions and the
\* assigned segment is one of them; a viewer satisfies exactly one unless
\* they have a decided row and no viewed row, and then they satisfy
\* never-viewed together with the assigned pass-only or active.
DeclaredSegmentsCover ==
    \A u \in UniqueViewers(view) :
        /\ Cardinality(AssignedOf(u)) = 1
        /\ AssignedOf(u) \subseteq DeclaredOf(u)
        /\ DeclaredOf(u) \ {"neverViewed"} = AssignedOf(u) \ {"neverViewed"}
        /\ ~DecidedUnviewed(u) => DeclaredOf(u) = AssignedOf(u)
        /\ DecidedUnviewed(u) =>
              /\ DeclaredOf(u) = AssignedOf(u) \cup {"neverViewed"}
              /\ AssignedOf(u) \subseteq {"passOnly", "active"}

\* A viewer whose only row is passed without having been viewed: never-viewed
\* and pass-only by the definitions, pass-only by the priority order.
DeclaredSegmentsCoverWitness ==
    \E u \in UniqueViewers(view) :
        /\ DecidedUnviewed(u)
        /\ DeclaredOf(u) = {"neverViewed", "passOnly"}
        /\ AssignedOf(u) = {"passOnly"}

(***************************************************************************)
(* Rank performance over views of one and of several dates.                *)
(***************************************************************************)
RowsRank ==
    {Shape(v, OtherUser(v), d, TRUE, <<0>>, "liked", <<1>>, km) :
        v \in Users, d \in {1, 2}, km \in 0 .. MaxKnowMore}

FiltersRank ==
    {[dateSet |-> ds, gender |-> "any", tier |-> "any"] : ds \in {{}, {1}, {1, 2}}}

NextRankSpec ==
    \/ \E s \in RowsRank : LoadMatch(s)
    \/ \E f \in FiltersRank : SetFilter(f)

SpecRank == InitDirectory /\ [][NextRankSpec]_vars

RowCountAtRank(k) == Cardinality({r \in view : r.rank = k})

\* The mean over the viewers of each viewer's own mean at rank k.
UserMeanAtRank(k) ==
    LET rs == {r \in view : r.rank = k}
        us == {r.viewerId : r \in rs}
    IN Mean(ListOver([u \in us |-> Mean(KnowMoreList({r \in rs : r.viewerId = u}))], us))

SameRankTwice(k) ==
    \E r1, r2 \in view : r1 # r2 /\ r1.viewerId = r2.viewerId /\ r1.rank = k /\ r2.rank = k

\* C13 as stated: in every filtered view a viewer has at most one row per
\* rank, the unique-viewer total of each rank is its number of rows and the
\* row-mean of knowMoreCount is the per-viewer mean.
RankRowsAreUsers ==
    \A k \in 1 .. MaxRank :
        /\ ~SameRankTwice(k)
        /\ RankPerformance(view)[k].total = RowCountAtRank(k)
        /\ RankPerformance(view)[k].kmAvg = UserMeanAtRank(k)

\* C13 amended: a viewer has at most one row per rank per date; in a view
\* whose rows are all of one date the total of each rank is its number of
\* rows and the row-mean is the per-viewer mean; over several dates the
\* total is at most the number of rows, and smaller exactly when a viewer
\* has the rank on two dates.
RankRowsAreUsersPerDate ==
    /\ \A r1, r2 \in view :
          (r1.viewerId = r2.viewerId /\ r1.createdAt = r2.createdAt /\ r1.rank = r2.rank)
              => r1 = r2
    /\ \A k \in 1 .. MaxRank :
          /\ RankPerformance(view)[k].total <= RowCountAtRank(k)
          /\ (RankPerformance(view)[k].total < RowCountAtRank(k)) <=> SameRankTwice(k)
          /\ Cardinality({r.createdAt : r \in view}) <= 1 =>
                /\ RankPerformance(view)[k].total = RowCountAtRank(k)
                /\ RankPerformance(view)[k].kmAvg = UserMeanAtRank(k)

\* One viewer with rank 1 on two dates, both in the view: one user, two rows.
RankRowsAreUsersPerDateWitness ==
    /\ SameRankTwice(1)
    /\ RankPerformance(view)[1].total = 1
    /\ RowCountAtRank(1) = 2

\* A one-date view in which a viewer holds ranks 1 and 2.
RankOneDateWitness ==
    /\ Cardinality({r.createdAt : r \in view}) = 1
    /\ RankPerformance(view)[1].total = 1
    /\ RankPerformance(view)[2].total = 1
    /\ RankPerformance(view)[2].kmAvg = MaxKnowMore

(***************************************************************************)
(* The tier cross matrix over users with a tier, with tier unknown and     *)
(* without a record.                                                       *)
(***************************************************************************)
RowsTier ==
    {Shape(v, OtherUser(v), 1, FALSE, <<>>, "null", <<>>, 0) : v \in Users}
    \cup {Shape(v, OtherUser(v), 1, TRUE, <<0>>, "null", <<>>, 1) : v \in Users}
    \cup {Shape(v, OtherUser(v), 1, TRUE, <<0>>, "liked", <<1>>, 1) : v \in Users}

FiltersTier == {[dateSet |-> {}, gender |-> "any", tier |-> t] : t \in {"any", "T1"}}

NextTier ==
    \/ \E s \in RowsTier : LoadMatch(s)
    \/ \E u \in Users, t \in Tiers \cup {"unknown"} : LoadAttribute(u, "male", t)
    \/ \E f \in FiltersTier : SetFilter(f)

SpecTier == InitEmpty /\ [][NextTier]_vars

TierPairs == Tiers \X Tiers

\* The filtered rows whose viewer and candidate both resolve to a tier.
BothTiersKnown ==
    {r \in view : Resolve(attributes, r.viewerId).tier \in Tiers
                     /\ Resolve(attributes, r.candidateId).tier \in Tiers}

CellsHolding(r) == {c \in TierPairs : r \in TierCellRows(view, c[1], c[2])}

\* C14: the matrix has exactly the nine cells of {1,2,3} x {1,2,3}, empty
\* cells included; a filtered row is counted in the one cell of its resolved
\* tier pair, or in no cell when its viewer or candidate tier is unknown;
\* the match counts n sum to the rows with both tiers known; a cell with
\* n = 0 reports view% = like% = 0.
TierCrossCells ==
    LET M == TierCrossMatrix(view) IN
    /\ DOMAIN M = TierPairs
    /\ Cardinality(DOMAIN M) = 9
    /\ \A r \in view :
          CellsHolding(r) =
             IF r \in BothTiersKnown
             THEN {<<Resolve(attributes, r.viewerId).tier, Resolve(attributes, r.candidateId).tier>>}
             ELSE {}
    /\ \A c \in TierPairs : M[c].n = Cardinality({r \in view : CellsHolding(r) = {c}})
    /\ SumOver([c \in TierPairs |-> M[c].n], TierPairs) = Cardinality(BothTiersKnown)
    /\ \A c \in TierPairs : M[c].n = 0 => (M[c].viewPct = 0 /\ M[c].likePct = 0)

\* A viewed row of a tier-1 viewer with a tier-2 candidate and an unviewed
\* row the other way round: two cells with n = 1, seven empty cells at 0.
TierCrossCellsWitness ==
    LET M == TierCrossMatrix(view) IN
    /\ Cardinality(view) = 2
    /\ M[<<"T1", "T2">>].n = 1 /\ M[<<"T1", "T2">>].viewPct = 100
    /\ M[<<"T2", "T1">>].n = 1 /\ M[<<"T2", "T1">>].viewPct = 0
    /\ \A c \in TierPairs \ {<<"T1", "T2">>, <<"T2", "T1">>} : M[c].n = 0 /\ M[c].viewPct = 0

\* Rows in the view, one with a viewer without a record and one with a
\* candidate of tier unknown: no cell counts them.
TierUnknownWitness ==
    /\ \E r \in view : r.viewerId \notin DOMAIN attributes
    /\ \E r \in view : r.candidateId \in DOMAIN attributes /\ attributes[r.candidateId].tier = "unknown"
    /\ \A c \in TierPairs : TierCrossMatrix(view)[c].n = 0

(***************************************************************************)
(* Precomputing the all / male / female views over one store, the steps of *)
(* the three runs and the session's filter changes interleaved.            *)
(***************************************************************************)
RowsRuns ==
    {Shape(v, OtherUser(v), d, FALSE, <<>>, "null", <<>>, 0) : v \in Users, d \in {1, 2}}
    \cup {Shape(v, OtherUser(v), d, TRUE, <<0>>, "liked", <<1>>, 1) : v \in Users, d \in {1, 2}}

FiltersRuns == {[dateSet |-> ds, gender |-> "any", tier |-> "any"] : ds \in {{}, {1}}}

NextRuns ==
    \/ \E s \in RowsRuns : Refresh(s)
    \/ \E f \in FiltersRuns : SetFilter(f)
    \/ \E i \in RunIds : StartFilter(i)
    \/ \E i \in RunIds : AggregateFunnel(i)
    \/ \E i \in RunIds : AggregateSegments(i)

SpecRuns == InitDirectory /\ [][NextRuns]_vars

\* What run i yields when it runs alone over the store.
Alone(i) ==
    LET v == Filter(matches, attributes, RunSpec(i)) IN
    [view |-> v, funnel |-> Funnel(v), segments |-> SegmentCounts(v)]

RunsAlone ==
    /\ view = Filter(matches, attributes, filterSpec)
    /\ \A i \in RunIds :
          /\ runs[i].pc # "idle" => runs[i].view = Alone(i).view
          /\ runs[i].pc \in {"partial", "done"} => runs[i].result.funnel = Alone(i).funnel
          /\ runs[i].pc = "done" => runs[i].result.segments = Alone(i).segments

RunStepIsolated ==
    runs' # runs =>
        /\ matches' = matches /\ attributes' = attributes
        /\ filterSpec' = filterSpec /\ view' = view
        /\ \A i, j \in RunIds : (i # j /\ runs'[i] # runs[i]) => runs'[j] = runs[j]

\* C15: with the steps of the runs for all, male and female interleaved in
\* any order, also with the session's filter changes, a step of a run
\* leaves the store, the session's view and every other run as they were,
\* and each run's view, partial output and result are those of running its
\* FilterSpec alone.
RunsReentrant == []RunsAlone /\ [][RunStepIsolated]_vars

\* The three runs are done over a store with a male and a female viewer
\* while the session looks at another view: 2, 1 and 1 users with matches.
RunsReentrantWitness ==
    /\ \A i \in RunIds : runs[i].pc = "done"
    /\ runs["any"].result.funnel["any"] = 2
    /\ runs["male"].result.funnel["any"] = 1
    /\ runs["female"].result.funnel["any"] = 1
    /\ view # runs["any"].view

(***************************************************************************)
(* batchEmails over lists of addresses, bodies that leave room for many,   *)
(* two, one or not even one address in the URL, and batch sizes from 1.    *)
(***************************************************************************)
MaxEmails == 3
MaxBatchSize == 3

EmailPool == {ConfigTestEmails[1], ConfigTestEmails[2]}

EmailLists == UNION {[1 .. n -> EmailPool] : n \in 0 .. MaxEmails}

\* The configured body, and the body padded with 890, 913 and 940 plain
\* characters: the URL without addresses is then 847, 1737, 1760 and 1787
\* long.
Bodies == {ConfigBody \o <<Run("unreserved", k)>> : k \in {0, 890, 913, 940}}

Calls ==
    [emails : EmailLists, subject : {ConfigSubject}, body : Bodies,
     maxBatchSize : 1 .. MaxBatchSize]

InitBatch ==
    /\ DashboardIdle
    /\ pc = "called"
    /\ config = CONFIG
    /\ call \in Calls
    /\ returned = <<>>
    /\ exitCode = <<>> /\ queries = <<>>
    /\ userData = <<>> /\ userMetadata = <<>> /\ users = <<>>
    /\ maleUsers = <<>> /\ femaleUsers = <<>>
    /\ maleBatches = <<>> /\ femaleBatches = <<>>
    /\ maleCsv = <<>> /\ femaleCsv = <<>>

NextBatch == ReturnBatches

SpecBatch == InitBatch /\ [][NextBatch]_vars

UrlOf(batch) == generateGmailUrl(batch, call.subject, call.body)

RECURSIVE Flatten(_)
Flatten(bs) == IF bs = <<>> THEN <<>> ELSE Head(bs) \o Flatten(Tail(bs))

\* C16: the URL of every returned batch is at most MAX_URL_LENGTH long, a
\* batch of a single email and the last batch included.
BatchUrlLimit ==
    pc = "returned" => \A i \in 1 .. Len(returned) : UrlOf(returned[i]) <= MAX_URL_LENGTH

BatchSizeFullWitness ==
    /\ pc = "returned"
    /\ call.maxBatchSize = 2
    /\ Len(returned) = 2
    /\ Len(returned[1]) = 2 /\ Len(returned[2]) = 1

\* C18: the returned batches, concatenated in order, are the input list; no
\* returned batch is empty; an empty input returns no batch.
BatchesKeepAll ==
    pc = "returned" =>
        /\ Flatten(returned) = call.emails
        /\ \A i \in 1 .. Len(returned) : returned[i] # <<>>
        /\ call.emails = <<>> => returned = <<>>

\* An input with a repeated address, split by a URL overflow after two
\* addresses: batches of two and one, in input order.
BatchesKeepAllWitness ==
    /\ pc = "returned"
    /\ Len(call.emails) = 3 /\ call.emails[1] = call.emails[3] /\ call.emails[1] # call.emails[2]
    /\ call.maxBatchSize = 3
    /\ UrlOf(call.emails) > MAX_URL_LENGTH
    /\ returned = <<SubSeq(call.emails, 1, 2), <<call.emails[3]>>>>

\* The empty input.
BatchesEmptyWitness == pc = "returned" /\ call.emails = <<>> /\ returned = <<>>

(***************************************************************************)
(* generateEmailBatches over CONFIGs with and without user ids and with    *)
(* batch sizes 1 and 25, and over the records the two tables may hold.     *)
(***************************************************************************)
Configs ==
    {[CONFIG EXCEPT !.batchSize = b] : b \in {1, ConfigBatchSize}}
    \cup {[CONFIG EXCEPT !.userIds = ids] : ids \in {<<>>, <<0>>, <<0>> \o ConfigUserIds}}

Reverse(q) == [i \in 1 .. Len(q) |-> q[Len(q) + 1 - i]]

MailAddresses == {"", ConfigTestEmails[1], ConfigTestEmails[2]}

\* "male", "Male", "FEMALE", "other", and null / "".
GenderValues ==
    {Male, <<77, 97, 108, 101>>, <<70, 69, 77, 65, 76, 69>>, <<111, 116, 104, 101, 114>>, <<>>}

UserDataTables ==
    UNION {{[i \in 1 .. Len(o) |-> [user_id |-> o[i], user_email |-> e[o[i]]]] :
                e \in [S -> MailAddresses], o \in {Ascending(S), Reverse(Ascending(S))}} :
           S \in SUBSET Users}

UserMetadataTables ==
    UNION {{[i \in 1 .. Cardinality(S) |->
                [user_id |-> Ascending(S)[i], gender |-> g[Ascending(S)[i]]]] :
                g \in [S -> GenderValues]} :
           S \in SUBSET Users}

InitGenerate ==
    /\ DashboardIdle
    /\ pc = "start"
    /\ config \in Configs
    /\ call = NoCall
    /\ returned = <<>>
    /\ exitCode = <<>> /\ queries = <<>>
    /\ userData = <<>> /\ userMetadata = <<>> /\ users = <<>>
    /\ maleUsers = <<>> /\ femaleUsers = <<>>
    /\ maleBatches = <<>> /\ femaleBatches = <<>>
    /\ maleCsv = <<>> /\ femaleCsv = <<>>

NextGenerate ==
    \/ ExitNoUserIds
    \/ FetchError
    \/ /\ pc = "start"
       /\ \E ud \in UserDataTables : FetchUserData(ud)
    \/ /\ pc = "userDataFetched"
       /\ \E um \in UserMetadataTables : FetchUserMetadata(um)
    \/ GenerateBatches
    \/ WriteMaleCsv
    \/ WriteFemaleCsv

SpecGenerate == InitGenerate /\ [][NextGenerate]_vars

\* The rows of a written CSV: batch 0 is the test batch with the test
\* emails, rows 1 .. k are the user batches in batch order.
CsvInOrder(csv, batches) ==
    /\ Len(csv) = 1 + Len(batches)
    /\ csv[1].batch_number = 0 /\ csv[1].isTestBatch
    /\ csv[1].emails = config.testEmails /\ csv[1].email_count = Len(config.testEmails)
    /\ \A k \in 1 .. Len(batches) :
          /\ csv[k + 1].batch_number = k
          /\ ~csv[k + 1].isTestBatch
          /\ csv[k + 1].emails = batches[k]
          /\ csv[k + 1].email_count = Len(batches[k])

\* C19: in the male and in the female CSV the first data row is batch 0,
\* isTestBatch = true, with exactly CONFIG.testEmails; it is followed by one
\* row per user batch numbered 1 .. k in batch order, isTestBatch = false,
\* email_count the batch's size; the test row is there without user batches.
CsvRowOrder ==
    /\ pc \in {"maleWritten", "done"} => CsvInOrder(maleCsv, maleBatches)
    /\ pc = "done" => CsvInOrder(femaleCsv, femaleBatches)

\* Both CSVs written: two male user batches after the test row, and the
\* test row alone in the female CSV.
CsvRowOrderWitness ==
    /\ pc = "done"
    /\ Len(maleBatches) = 2
    /\ Len(maleCsv) = 3 /\ maleCsv[3].batch_number = 2 /\ maleCsv[3].email_count = 1
    /\ femaleBatches = <<>>
    /\ Len(femaleCsv) = 1 /\ femaleCsv[1].isTestBatch

ToUpper(c) == IF c \in 97 .. 122 THEN c - 32 ELSE c

EqualsIgnoringCase(a, b) ==
    Len(a) = Len(b) /\ \A i \in 1 .. Len(a) : ToUpper(a[i]) = ToUpper(b[i])

\* The gender user_metadata holds for a user; <<>> when it holds no record.
MetadataGender(id) ==
    IF \E k \in 1 .. Len(userMetadata) : userMetadata[k].user_id = id
    THEN userMetadata[CHOOSE k \in 1 .. Len(userMetadata) :
                          /\ userMetadata[k].user_id = id
                          /\ \A l \in 1 .. k - 1 : userMetadata[l].user_id # id].gender
    ELSE <<>>

Listed(us, id) == \E k \in 1 .. Len(us) : us[k].user_id = id

\* C20: a fetched user_data record is in the male batches iff it has a
\* non-empty email and its user_metadata gender is 'male' ignoring case,
\* in the female batches iff non-empty email and 'female' ignoring case;
\* none is in both; without a user_metadata record, with another gender or
\* without email it is in neither; a user only in user_metadata is never
\* emailed; the batches hold exactly the emails of the users so selected.
GenderSeparation ==
    pc \in {"batched", "maleWritten", "done"} =>
        /\ \A i \in 1 .. Len(userData) :
              LET id == userData[i].user_id
                  hasEmail == userData[i].user_email # ""
              IN /\ Listed(maleUsers, id) <=>
                        (hasEmail /\ EqualsIgnoringCase(MetadataGender(id), Male))
                 /\ Listed(femaleUsers, id) <=>
                        (hasEmail /\ EqualsIgnoringCase(MetadataGender(id), Female))
                 /\ ~(Listed(maleUsers, id) /\ Listed(femaleUsers, id))
        /\ \A k \in 1 .. Len(userMetadata) :
              (\A i \in 1 .. Len(userData) : userData[i].user_id # userMetadata[k].user_id) =>
                  /\ ~Listed(maleUsers, userMetadata[k].user_id)
                  /\ ~Listed(femaleUsers, userMetadata[k].user_id)
        /\ \A k \in 1 .. Len(maleUsers) : \E i \in 1 .. Len(userData) :
              userData[i].user_id = maleUsers[k].user_id /\ userData[i].user_email = maleUsers[k].user_email
        /\ \A k \in 1 .. Len(femaleUsers) : \E i \in 1 .. Len(userData) :
              userData[i].user_id = femaleUsers[k].user_id /\ userData[i].user_email = femaleUsers[k].user_email
        /\ Flatten(maleBatches) = EmailsOf(maleUsers)
        /\ Flatten(femaleBatches) = EmailsOf(femaleUsers)

\* A user with gender "Male" and one with gender "FEMALE", both with an
\* email: one male batch with the first, one female batch with the second.
GenderSeparationWitness ==
    /\ pc = "done"
    /\ \E i \in 1 .. Len(userData) :
          /\ MetadataGender(userData[i].user_id) = <<77, 97, 108, 101>>
          /\ maleBatches = <<<<userData[i].user_email>>>>
    /\ \E i \in 1 .. Len(userData) :
          /\ MetadataGender(userData[i].user_id) = <<70, 69, 77, 65, 76, 69>>
          /\ femaleBatches = <<<<userData[i].user_email>>>>

\* A user with an email and no user_metadata record, another user only in
\* user_metadata as male: nobody is emailed.
GenderNobodyWitness ==
    /\ pc = "done"
    /\ Len(userData) = 1 /\ userData[1].user_email # ""
    /\ Len(userMetadata) = 1 /\ userMetadata[1].user_id # userData[1].user_id
    /\ userMetadata[1].gender = Male
    /\ maleBatches = <<>> /\ femaleBatches = <<>>


(***************************************************************************)
(* Funnel percentages over one day of matches with and without views,      *)
(* decisions and know-more clicks.                                         *)
(***************************************************************************)
RowsFunnel ==
    {Shape(v, OtherUser(v), 1, vw, IF vw THEN <<0>> ELSE <<>>,
           dec, IF dec = "null" THEN <<>> ELSE <<1>>, km) :
        v \in Users, vw \in BOOLEAN, dec \in {"null", "liked", "passed"}, km \in {0, 1}}

NextFunnel ==
    \/ \E s \in RowsFunnel : LoadMatch(s)
    \/ \E f \in FiltersSegments : SetFilter(f)

SpecFunnel == InitDirectory /\ [][NextFunnel]_vars

PerCent == 0 .. 100

\* C21 as stated: for every filtered view every absolute % and every
\* relative % of the funnel steps lies between 0 and 100, each step's
\* unique-user count being at most the count of the step it is divided by
\* (decided <= engaged, engaged <= viewed).
FunnelPercentagesBounded ==
    LET f == Funnel(view)
        pc100 == FunnelPercentages(view)
    IN  \A p \in DOMAIN pc100 :
            /\ pc100[p].absolute \in PerCent
            /\ pc100[p].relative \in PerCent
            /\ f[p] <= f[PreviousStep(p)]

\* C21 (amended): for every filtered view every absolute % of the funnel
\* steps lies between 0 and 100, and so does the relative % of viewed
\* (against users with matches) and of liked, disliked and passed (against
\* decided), those counts being at most the count they are divided by; the
\* relative % of engaged and of decided is never negative.
FunnelPercentagesBoundedNested ==
    LET f == Funnel(view)
        pc100 == FunnelPercentages(view)
    IN  \A p \in DOMAIN pc100 :
            /\ pc100[p].absolute \in PerCent
            /\ f[p] <= f["any"]
            /\ pc100[p].relative >= 0
            /\ p \in {"viewed", "liked", "disliked", "passed"} =>
                   /\ pc100[p].relative \in PerCent
                   /\ f[p] <= f[PreviousStep(p)]

\* Two deciders of whom one engaged and one liked: decided is 200% of
\* engaged, liked is 50% of decided.
FunnelPercentagesBoundedNestedWitness ==
    /\ Funnel(view)["decided"] = 2
    /\ Funnel(view)["engaged"] = 1
    /\ FunnelPercentages(view)["decided"].relative = 200
    /\ FunnelPercentages(view)["liked"].relative = 50
    /\ FunnelPercentages(view)["decided"].absolute = 100

\* A viewer with a know-more click on a match not marked viewed: engaged
\* exceeds viewed.
FunnelEngagedUnviewedWitness ==
    /\ Funnel(view)["engaged"] > Funnel(view)["viewed"]
    /\ Funnel(view)["viewed"] > 0

\* The user batch rows of a CSV list each user of the list once, in the row
\* of the batch that holds the user's email: every row lists as many ids as
\* its email_count and the rows' ids in order are the users' ids.
IdsMatchEmails(csv, us) ==
    /\ \A k \in 2 .. Len(csv) : Len(csv[k].user_ids) = csv[k].email_count
    /\ Flatten([k \in 1 .. Len(csv) - 1 |-> csv[k + 1].user_ids]) = IdsOf(us)

\* C22: in every user batch row written by generateEmailBatches the number
\* of user ids listed equals email_count and the listed ids are exactly the
\* users whose emails are in that batch, also when two users of the same
\* gender have the same email address and land in different batches.
UserIdsMatchEmails ==
    /\ pc \in {"maleWritten", "done"} => IdsMatchEmails(maleCsv, maleUsers)
    /\ pc = "done" => IdsMatchEmails(femaleCsv, femaleUsers)

\* A CSV file has been written (a written file holds at least the test row).
Written == maleCsv # <<>> \/ femaleCsv # <<>>

BothQueriesReturned ==
    queries = <<Queried("user_data", FALSE), Queried("user_metadata", FALSE)>>

\* What holds in every state of a run of generateEmailBatches.
NoOutputOnFailureState ==
    /\ (exitCode # <<>>) <=> (pc = "exited")
    /\ Len(queries) <= 2
    /\ \A k \in 1 .. Len(queries) :
          /\ queries[k].table = (IF k = 1 THEN "user_data" ELSE "user_metadata")
          /\ queries[k].error =>
                k = Len(queries) /\ pc = "exited" /\ exitCode = <<1>> /\ ~Written
    /\ Written => UserIds(config) # <<>> /\ BothQueriesReturned /\ exitCode = <<>>
    /\ UserIds(config) = <<>> => queries = <<>> /\ ~Written /\ exitCode \in {<<>>, <<0>>}
    /\ exitCode = <<0>> => UserIds(config) = <<>>
    /\ exitCode = <<1>> => queries # <<>> /\ queries[Len(queries)].error

\* C23: a CSV file is written only after the list of non-blank configured
\* user ids is non-empty and the user_data query and then the user_metadata
\* query have returned without error; with no user id the run stops with
\* exit code 0 before any query, a user_data error stops it with exit code 1
\* before the user_metadata query, a user_metadata error stops it with exit
\* code 1, and in the three cases no file is written: nothing happens after
\* the exit.
NoOutputOnFailure == []NoOutputOnFailureState /\ [][pc # "exited"]_vars

\* The user_metadata query fails after user_data returned records.
NoOutputOnFailureWitness ==
    /\ pc = "exited" /\ exitCode = <<1>>
    /\ queries = <<Queried("user_data", FALSE), Queried("user_metadata", TRUE)>>
    /\ userData # <<>>
    /\ ~Written

\* The user_data query fails: user_metadata is never queried.
UserDataErrorWitness ==
    /\ pc = "exited" /\ exitCode = <<1>>
    /\ queries = <<Queried("user_data", TRUE)>>
    /\ ~Written

\* Only a blank user id configured: exit code 0 and no query.
ExitNoUserIdsWitness ==
    /\ pc = "exited" /\ exitCode = <<0>>
    /\ config.userIds = <<0>>
    /\ queries = <<>>
    /\ ~Written

\* Both files written for a configuration with a blank id among the ids.
BothWrittenWitness ==
    /\ pc = "done"
    /\ maleCsv # <<>> /\ femaleCsv # <<>>
    /\ Len(config.userIds) > Len(UserIds(config))
    /\ BothQueriesReturned

====
